---- MODULE Spec2Model ----
(***************************************************************************)
(* A model of tch-serde (src/src/lib.rs): the four serde codecs for tch's  *)
(* Tensor, Device, Kind and Reduction.                                     *)
(*                                                                         *)
(* Text is a sequence of one-character strings, so that strip_prefix and   *)
(* str::parse act on characters.  Kind names are matched whole by the code *)
(* and are TLA+ strings.  usize and i64 values are decimal digit sequences *)
(* (most significant digit first, no leading zero), so that the 64-bit     *)
(* range checks of str::parse are the real ones.                           *)
(***************************************************************************)
EXTENDS Integers, Sequences, FiniteSets, TLC

VARIABLES op, pc, input, orig, repr, buffer, tensor, copies, trace, result

vars == <<op, pc, input, orig, repr, buffer, tensor, copies, trace, result>>

(***************************************************************************)
(* Bounds of the model.                                                    *)
(***************************************************************************)
\* longest shape (rank) of a tensor or record
MaxRank == 2
\* largest size of one dimension
MaxDim == 2
\* longest suffix appended to a text prefix when enumerating input texts
MaxSuffixLen == 2
\* largest small device index / reduction magnitude enumerated
MaxIndex == 2
\* most bytes a foreign record's data is short or long by
MaxDelta == 1

(***************************************************************************)
(* Characters, text and numbers.                                           *)
(***************************************************************************)
DigitChars == <<"0", "1", "2", "3", "4", "5", "6", "7", "8", "9">>

\* char::to_digit(10): the digit a character stands for, or -1
ToDigit(c) ==
    IF \E d \in 0..9 : DigitChars[d + 1] = c
    THEN CHOOSE d \in 0..9 : DigitChars[d + 1] = c
    ELSE -1

\* a natural number below 100 as its digit sequence
Nat2Digits(n) == IF n < 10 THEN <<n>> ELSE <<n \div 10, n % 10>>

\* usize::MAX = 2^64 - 1 and the magnitudes of i64::MAX, i64::MIN
UsizeMax == <<1,8,4,4,6,7,4,4,0,7,3,7,0,9,5,5,1,6,1,5>>
I64Max == <<9,2,2,3,3,7,2,0,3,6,8,5,4,7,7,5,8,0,7>>
I64MinMag == <<9,2,2,3,3,7,2,0,3,6,8,5,4,7,7,5,8,0,8>>

\* a <= b on digit sequences without leading zeros
DigitsLeq(a, b) ==
    \/ Len(a) < Len(b)
    \/ /\ Len(a) = Len(b)
       /\ \/ a = b
          \/ \E i \in 1..Len(a) :
                /\ \A j \in 1..(i - 1) : a[j] = b[j]
                /\ a[i] < b[i]

\* acc * 10 + d on digit sequences
MulAdd10(acc, d) == IF acc = <<0>> THEN <<d>> ELSE Append(acc, d)

\* Display of an unsigned number: its decimal digits
FormatDigits(ds) == [i \in 1..Len(ds) |-> DigitChars[ds[i] + 1]]

\* variant: the magnitude alone, the sign lost
FormatI64NoSign(v) == FormatDigits(v.mag)

\* Display of an i64: a minus sign for negatives, no sign otherwise
FormatI64(v) == IF v.neg THEN <<"-">> \o FormatDigits(v.mag) ELSE FormatDigits(v.mag)

NoneOpt == [tag |-> "None"]
Some(v) == [tag |-> "Some", val |-> v]

\* the digit loop of from_str_radix: checked_mul(10) then checked_add/sub(d),
\* failing on a non-digit and on leaving the range 0..limit
RECURSIVE ParseDigits(_, _, _)
ParseDigits(chars, acc, limit) ==
    IF chars = <<>> THEN Some(acc)
    ELSE IF ToDigit(Head(chars)) < 0 THEN NoneOpt
    ELSE LET next == MulAdd10(acc, ToDigit(Head(chars)))
         IN IF DigitsLeq(next, limit)
            THEN ParseDigits(Tail(chars), next, limit)
            ELSE NoneOpt

\* str::parse::<usize>: empty fails, one leading '+' is dropped, '-' is no digit
ParseUsize(s) ==
    IF s = <<>> THEN NoneOpt
    ELSE LET digits == IF Head(s) = "+" THEN Tail(s) ELSE s
         IN IF digits = <<>> THEN NoneOpt
            ELSE ParseDigits(digits, <<0>>, UsizeMax)

\* variant: the negative range taken to mirror the positive one
ParseI64Symmetric(s) ==
    IF s = <<>> THEN NoneOpt
    ELSE LET positive == Head(s) # "-"
             digits == IF Head(s) \in {"+", "-"} THEN Tail(s) ELSE s
         IN IF digits = <<>> THEN NoneOpt
            ELSE LET m == ParseDigits(digits, <<0>>, I64Max)
                 IN IF m.tag = "None" THEN NoneOpt
                    ELSE Some([neg |-> (~positive) /\ m.val # <<0>>, mag |-> m.val])

\* str::parse::<i64>: empty fails, one leading '+' or '-' is dropped
ParseI64(s) ==
    IF s = <<>> THEN NoneOpt
    ELSE LET positive == Head(s) # "-"
             digits == IF Head(s) \in {"+", "-"} THEN Tail(s) ELSE s
         IN IF digits = <<>> THEN NoneOpt
            ELSE LET m == ParseDigits(digits, <<0>>,
                                      IF positive THEN I64Max ELSE I64MinMag)
                 IN IF m.tag = "None" THEN NoneOpt
                    ELSE Some([neg |-> (~positive) /\ m.val # <<0>>, mag |-> m.val])

\* str::strip_prefix
StripPrefix(s, prefix) ==
    IF Len(s) >= Len(prefix) /\ SubSeq(s, 1, Len(prefix)) = prefix
    THEN Some(SubSeq(s, Len(prefix) + 1, Len(s)))
    ELSE NoneOpt

Ok(v) == [tag |-> "Ok", val |-> v]
Err(msg, arg) == [tag |-> "Err", msg |-> msg, arg |-> arg]
NoResult == [tag |-> "Pending"]

(***************************************************************************)
(* serde_device                                                            *)
(***************************************************************************)
Cpu == [tag |-> "Cpu"]
Cuda(n) == [tag |-> "Cuda", index |-> n]

CudaPrefix == <<"c", "u", "d", "a", ":">>
CpuText == <<"c", "p", "u">>

DeviceSerialize(device) ==
    IF device.tag = "Cpu" THEN Ok(CpuText)
    ELSE Ok(CudaPrefix \o FormatDigits(device.index))

\* variant: "cpu" matched as a prefix instead of the whole text
DeviceDeserializeCpuPrefix(text) ==
    IF StripPrefix(text, CpuText).tag = "Some" THEN Ok(Cpu)
    ELSE LET remaining == StripPrefix(text, CudaPrefix)
             index == IF remaining.tag = "None" THEN NoneOpt
                      ELSE ParseUsize(remaining.val)
         IN IF index.tag = "None"
            THEN Err("invalid device name", text)
            ELSE Ok(Cuda(index.val))

DeviceDeserialize(text) ==
    IF text = CpuText THEN Ok(Cpu)
    ELSE LET remaining == StripPrefix(text, CudaPrefix)
             index == IF remaining.tag = "None" THEN NoneOpt
                      ELSE ParseUsize(remaining.val)
         IN IF index.tag = "None"
            THEN Err("invalid device name", text)
            ELSE Ok(Cuda(index.val))

(***************************************************************************)
(* serde_kind                                                              *)
(***************************************************************************)
Kinds ==
    {"Uint8", "Int8", "Int16", "Int", "Int64", "Half", "Float", "Double",
     "ComplexHalf", "ComplexFloat", "ComplexDouble", "Bool", "QInt8",
     "QUInt8", "QInt32", "BFloat16"}

KindSerialize(kind) ==
    Ok(CASE kind = "Uint8" -> "uint8"
         [] kind = "Int8" -> "int8"
         [] kind = "Int16" -> "int16"
         [] kind = "Int" -> "int"
         [] kind = "Int64" -> "int64"
         [] kind = "Half" -> "half"
         [] kind = "Float" -> "float"
         [] kind = "Double" -> "double"
         [] kind = "ComplexHalf" -> "complex_half"
         [] kind = "ComplexFloat" -> "complex_float"
         [] kind = "ComplexDouble" -> "complex_double"
         [] kind = "Bool" -> "bool"
         [] kind = "QInt8" -> "qint8"
         [] kind = "QUInt8" -> "quint8"
         [] kind = "QInt32" -> "qint32"
         [] kind = "BFloat16" -> "bfloat16")

\* variant: "Float" accepted beside "float"
KindDeserializeFloatCapital(text) ==
    CASE text = "uint8" -> Ok("Uint8")
      [] text = "int8" -> Ok("Int8")
      [] text = "int16" -> Ok("Int16")
      [] text = "int" -> Ok("Int")
      [] text = "int64" -> Ok("Int64")
      [] text = "half" -> Ok("Half")
      [] text \in {"float", "Float"} -> Ok("Float")
      [] text = "double" -> Ok("Double")
      [] text = "complex_half" -> Ok("ComplexHalf")
      [] text = "complex_float" -> Ok("ComplexFloat")
      [] text = "complex_double" -> Ok("ComplexDouble")
      [] text = "bool" -> Ok("Bool")
      [] text = "qint8" -> Ok("QInt8")
      [] text = "quint8" -> Ok("QUInt8")
      [] text = "qint32" -> Ok("QInt32")
      [] text = "bfloat16" -> Ok("BFloat16")
      [] OTHER -> Err("invalid kind", text)

KindDeserialize(text) ==
    CASE text = "uint8" -> Ok("Uint8")
      [] text = "int8" -> Ok("Int8")
      [] text = "int16" -> Ok("Int16")
      [] text = "int" -> Ok("Int")
      [] text = "int64" -> Ok("Int64")
      [] text = "half" -> Ok("Half")
      [] text = "float" -> Ok("Float")
      [] text = "double" -> Ok("Double")
      [] text = "complex_half" -> Ok("ComplexHalf")
      [] text = "complex_float" -> Ok("ComplexFloat")
      [] text = "complex_double" -> Ok("ComplexDouble")
      [] text = "bool" -> Ok("Bool")
      [] text = "qint8" -> Ok("QInt8")
      [] text = "quint8" -> Ok("QUInt8")
      [] text = "qint32" -> Ok("QInt32")
      [] text = "bfloat16" -> Ok("BFloat16")
      [] OTHER -> Err("invalid kind", text)

(***************************************************************************)
(* serde_reduction                                                         *)
(***************************************************************************)
ReductionNone == [tag |-> "None"]
ReductionMean == [tag |-> "Mean"]
ReductionSum == [tag |-> "Sum"]
ReductionOther(v) == [tag |-> "Other", value |-> v]

OtherPrefix == <<"o", "t", "h", "e", "r", ":">>
NoneText == <<"n", "o", "n", "e">>
MeanText == <<"m", "e", "a", "n">>
SumText == <<"s", "u", "m">>

ReductionSerialize(reduction) ==
    CASE reduction.tag = "None" -> Ok(NoneText)
      [] reduction.tag = "Mean" -> Ok(MeanText)
      [] reduction.tag = "Sum" -> Ok(SumText)
      [] reduction.tag = "Other" -> Ok(OtherPrefix \o FormatI64(reduction.value))

ReductionDeserialize(text) ==
    CASE text = NoneText -> Ok(ReductionNone)
      [] text = MeanText -> Ok(ReductionMean)
      [] text = SumText -> Ok(ReductionSum)
      [] OTHER ->
            LET remaining == StripPrefix(text, OtherPrefix)
                value == IF remaining.tag = "None" THEN NoneOpt
                         ELSE ParseI64(remaining.val)
            IN IF value.tag = "None"
               THEN Err("invalid reduction", text)
               ELSE Ok(ReductionOther(value.val))

(***************************************************************************)
(* The tensor library as serde_tensor uses it.                             *)
(***************************************************************************)
\* Tensor::numel: the product of the dimensions, 1 for the empty shape
RECURSIVE Numel(_)
Numel(shape) == IF shape = <<>> THEN 1 ELSE Head(shape) * Numel(Tail(shape))

\* Kind::elt_size_in_bytes, as Tensor::of_data_size and copy_data_u8 use it
KindEltSize(kind) ==
    CASE kind \in {"Uint8", "Int8", "Bool", "QInt8", "QUInt8"} -> 1
      [] kind \in {"Int16", "Half", "BFloat16"} -> 2
      [] kind \in {"Int", "Float", "QInt32", "ComplexHalf"} -> 4
      [] kind \in {"Int64", "Double", "ComplexFloat"} -> 8
      [] kind = "ComplexDouble" -> 16

\* kinds whose tensors may track gradients
GradKinds ==
    {"Half", "Float", "Double", "BFloat16",
     "ComplexHalf", "ComplexFloat", "ComplexDouble"}

Tensor(shape, kind, requires_grad, device, data) ==
    [shape |-> shape, kind |-> kind, requires_grad |-> requires_grad,
     device |-> device, data |-> data]

\* Tensor::copy_data_u8(&mut buffer, numel): the first numel elements' bytes
\* written over the front of the buffer
CopyDataU8(t, buf, numel) ==
    [i \in 1..Len(buf) |->
        IF i <= numel * KindEltSize(t.kind) THEN t.data[i] ELSE buf[i]]

\* bytes an out-of-bounds read may yield
PadBytes == {0, 255}

Crash == [tag |-> "Crash"]
Panic == [tag |-> "Panic"]
Built(t) == [tag |-> "Built", val |-> t]

\* Tensor::of_data_size(&data, &shape, kind): a host tensor without gradient
\* tracking whose numel * elt_size bytes are copied from the start of data,
\* whatever data's length is.  A shorter data is read past its end: any bytes,
\* or a fault.
OfDataSize(data, shape, kind) ==
    LET need == Numel(shape) * KindEltSize(kind)
    IN IF Len(data) >= need
       THEN {Built(Tensor(shape, kind, FALSE, Cpu, SubSeq(data, 1, need)))}
       ELSE {Built(Tensor(shape, kind, FALSE, Cpu, data \o pad)) :
                pad \in [1..(need - Len(data)) -> PadBytes]}
            \cup {Crash}

\* Tensor::set_requires_grad: panics when gradients are asked of a kind that
\* cannot track them
SetRequiresGrad(t, requires_grad) ==
    IF requires_grad /\ t.kind \notin GradKinds THEN Panic
    ELSE Built([t EXCEPT !.requires_grad = requires_grad])

\* Tensor::to_device
ToDevice(t, device) == [t EXCEPT !.device = device]

(***************************************************************************)
(* serde_tensor                                                            *)
(***************************************************************************)
\* variant: the complex kinds given sizes instead of the error arm
ElemSizeWithComplex(kind) ==
    CASE kind \in {"Uint8", "Int8", "Bool", "QInt8", "QUInt8"} -> Some(1)
      [] kind \in {"Int16", "Half", "BFloat16"} -> Some(2)
      [] kind \in {"Int", "Float", "QInt32", "ComplexHalf"} -> Some(4)
      [] kind \in {"Int64", "Double", "ComplexFloat"} -> Some(8)
      [] kind = "ComplexDouble" -> Some(16)

\* variant: BFloat16 sized as f32
ElemSizeBFloatAsFloat(kind) ==
    CASE kind \in {"Uint8", "Int8", "Bool", "QInt8", "QUInt8"} -> Some(1)
      [] kind \in {"Int16", "Half"} -> Some(2)
      [] kind \in {"Int", "Float", "QInt32", "BFloat16"} -> Some(4)
      [] kind \in {"Int64", "Double"} -> Some(8)
      [] OTHER -> NoneOpt

\* the elem_size match of serde_tensor::serialize; None is the `_` arm
ElemSize(kind) ==
    CASE kind = "Uint8" -> Some(1)
      [] kind = "Int8" -> Some(1)
      [] kind = "Int16" -> Some(2)
      [] kind = "Int" -> Some(4)
      [] kind = "Int64" -> Some(8)
      [] kind = "Half" -> Some(2)
      [] kind = "Float" -> Some(4)
      [] kind = "Double" -> Some(8)
      [] kind = "Bool" -> Some(1)
      [] kind = "QInt8" -> Some(1)
      [] kind = "QUInt8" -> Some(1)
      [] kind = "QInt32" -> Some(4)
      [] kind = "BFloat16" -> Some(2)
      [] OTHER -> NoneOpt

\* vec![0u8; buf_size]
ZeroBuffer(size) == [i \in 1..size |-> 0]

TensorRepr(requires_grad, device, shape, kind, data) ==
    [requires_grad |-> requires_grad, device |-> device, shape |-> shape,
     kind |-> kind, data |-> data]

\* derive(Serialize) of TensorRepr: the fields in declaration order, device
\* and kind through their codecs
ReprSerialize(r) ==
    LET device == DeviceSerialize(r.device)
        kind == KindSerialize(r.kind)
    IN IF device.tag = "Err" THEN device
       ELSE IF kind.tag = "Err" THEN kind
       ELSE Ok([requires_grad |-> r.requires_grad, device |-> device.val,
                shape |-> r.shape, kind |-> kind.val, data |-> r.data,
                first |-> "device"])

\* variant: an undecodable device falls back to the host
ReprDeserializeDefaultDevice(w) ==
    LET device == DeviceDeserialize(w.device)
        kind == KindDeserialize(w.kind)
    IN IF kind.tag = "Err" THEN kind
       ELSE Ok(TensorRepr(w.requires_grad,
                          IF device.tag = "Err" THEN Cpu ELSE device.val,
                          w.shape, kind.val, w.data))

\* derive(Deserialize) of TensorRepr: the fields are decoded in the order the
\* document gives them (`first` names which of device and kind comes first),
\* and the first failing field's error is returned
ReprDeserialize(w) ==
    LET device == DeviceDeserialize(w.device)
        kind == KindDeserialize(w.kind)
    IN IF device.tag = "Err" /\ (w.first = "device" \/ kind.tag = "Ok") THEN device
       ELSE IF kind.tag = "Err" THEN kind
       ELSE Ok(TensorRepr(w.requires_grad, device.val, w.shape, kind.val, w.data))

\* variant: the tensor is never moved to the record's device
StepAfterNoMove(step) ==
    CASE step = "decode" -> "construct"
      [] step = "construct" -> "set_requires_grad"
      [] step = "set_requires_grad" -> "return"
      [] step = "to_device" -> "return"
      [] step = "return" -> "returned"

\* variant: the tensor is moved before its gradient flag is set
StepAfterMoveFirst(step) ==
    CASE step = "decode" -> "construct"
      [] step = "construct" -> "to_device"
      [] step = "to_device" -> "set_requires_grad"
      [] step = "set_requires_grad" -> "return"
      [] step = "return" -> "returned"

\* the statements of serde_tensor::deserialize, in program order
StepAfter(step) ==
    CASE step = "decode" -> "construct"
      [] step = "construct" -> "set_requires_grad"
      [] step = "set_requires_grad" -> "to_device"
      [] step = "to_device" -> "return"
      [] step = "return" -> "returned"

(***************************************************************************)
(* Inputs.                                                                 *)
(***************************************************************************)
RECURSIVE Texts(_, _)
\* every text over alphabet of length at most n
Texts(alphabet, n) ==
    IF n = 0 THEN {<<>>}
    ELSE LET shorter == Texts(alphabet, n - 1)
         IN shorter \cup {Append(t, c) : t \in shorter, c \in alphabet}

SuffixChars == {"0", "1", "9", "+", "-", "a", " "}
Suffixes == Texts(SuffixChars, MaxSuffixLen)

SmallNumbers == {Nat2Digits(n) : n \in 0..MaxIndex}

\* Device values: CPU and CUDA devices of small and of the largest index
Devices == {Cpu} \cup {Cuda(n) : n \in SmallNumbers \cup {UsizeMax}}

\* 2^64, one past usize::MAX
UsizeOver == <<1,8,4,4,6,7,4,4,0,7,3,7,0,9,5,5,1,6,1,6>>
\* 2^63 + 1, one past the magnitude of i64::MIN
I64Under == <<9,2,2,3,3,7,2,0,3,6,8,5,4,7,7,5,8,0,9>>
LongZeros == [i \in 1..20 |-> "0"]

DevicePrefixes ==
    {<<>>, CpuText, CudaPrefix, <<"c", "u", "d", "a">>, <<"g", "p", "u", ":">>,
     <<"C", "u", "d", "a", ":">>, <<" ">> \o CudaPrefix}

\* texts handed to serde_device::deserialize
DeviceTexts ==
    {p \o t : p \in DevicePrefixes, t \in Suffixes}
    \cup {CudaPrefix \o FormatDigits(UsizeMax),
          CudaPrefix \o FormatDigits(UsizeOver),
          CudaPrefix \o <<"+">> \o FormatDigits(UsizeMax),
          CudaPrefix \o LongZeros \o <<"1">>,
          CudaPrefix \o FormatDigits(UsizeMax) \o <<"0">>}

I64s ==
    {[neg |-> s, mag |-> m] : s \in BOOLEAN, m \in SmallNumbers \ {<<0>>}}
    \cup {[neg |-> FALSE, mag |-> <<0>>],
          [neg |-> FALSE, mag |-> I64Max],
          [neg |-> TRUE, mag |-> I64MinMag]}

Reductions ==
    {ReductionNone, ReductionMean, ReductionSum}
    \cup {ReductionOther(v) : v \in I64s}

ReductionPrefixes ==
    {<<>>, NoneText, MeanText, SumText, OtherPrefix,
     <<"o", "t", "h", "e", "r">>, <<"O", "t", "h", "e", "r", ":">>}

\* texts handed to serde_reduction::deserialize
ReductionTexts ==
    {p \o t : p \in ReductionPrefixes, t \in Suffixes}
    \cup {OtherPrefix \o FormatDigits(I64Max),
          OtherPrefix \o FormatDigits(I64MinMag),
          OtherPrefix \o <<"+">> \o FormatDigits(I64Max),
          OtherPrefix \o <<"-">> \o FormatDigits(I64MinMag),
          OtherPrefix \o <<"-">> \o FormatDigits(I64Under),
          OtherPrefix \o <<"-">> \o LongZeros \o <<"7">>,
          OtherPrefix \o FormatDigits(UsizeMax)}

\* texts handed to serde_kind::deserialize
KindTexts ==
    {KindSerialize(k).val : k \in Kinds}
    \cup {"Float", "uint16", "", "INT", "int32", "float ", "complexfloat",
          "BFloat16", "uint", "qint16"}

Shapes == UNION {[1..r -> 0..MaxDim] : r \in 0..MaxRank}

\* the bytes seed, seed + 1, ... (mod 256)
Pattern(seed, n) == [i \in 1..n |-> (seed + i - 1) % 256]

\* first bytes of the element data enumerated
Seeds == {0, 250}

TensorDevices == {Cpu, Cuda(<<0>>), Cuda(<<1>>)}

\* the tensors handed to serde_tensor::serialize: every kind, every shape,
\* gradient tracking only where the kind allows it
Tensors ==
    {Tensor(shape, kind, g, d, Pattern(seed, Numel(shape) * KindEltSize(kind))) :
        shape \in Shapes, kind \in Kinds, g \in {FALSE}, d \in TensorDevices,
        seed \in Seeds}
    \cup
    {Tensor(shape, kind, g, d, Pattern(seed, Numel(shape) * KindEltSize(kind))) :
        shape \in Shapes, kind \in GradKinds, g \in {TRUE}, d \in TensorDevices,
        seed \in Seeds}

WireDeviceTexts ==
    {CpuText, CudaPrefix \o <<"1">>, CudaPrefix, <<"g", "p", "u", ":", "0">>}

WireKindTexts == {"uint8", "int16", "float", "int64", "bfloat16", "Float", "uint16"}

\* the field orders that differ in outcome: which of device and kind a
\* document gives first matters only when both are undecodable
WireOrders(deviceText, kindText) ==
    IF DeviceDeserialize(deviceText).tag = "Err" /\ KindDeserialize(kindText).tag = "Err"
    THEN {"device", "kind"}
    ELSE {"device"}

\* the data lengths a foreign record may carry: right, short or long
WireLengths(shape, kindText) ==
    LET kind == KindDeserialize(kindText)
        expected == IF kind.tag = "Ok" THEN Numel(shape) * KindEltSize(kind.val)
                    ELSE 0
    IN {n \in (expected - MaxDelta)..(expected + MaxDelta) : n >= 0}

\* serialized tensor records handed to serde_tensor::deserialize
Wires ==
    UNION {{[requires_grad |-> g, device |-> d, shape |-> shape, kind |-> k,
             data |-> Pattern(0, n), first |-> f] :
               g \in BOOLEAN, f \in WireOrders(d, k), n \in WireLengths(shape, k)} :
           shape \in Shapes, k \in WireKindTexts, d \in WireDeviceTexts}

(***************************************************************************)
(* State machine: one call at a time, started from idle; a deserialize may *)
(* also be started on what the matching serialize just returned.           *)
(***************************************************************************)
Init ==
    /\ op = "none"
    /\ pc = "idle"
    /\ input = NoneOpt
    /\ orig = NoneOpt
    /\ repr = NoneOpt
    /\ buffer = <<>>
    /\ tensor = NoneOpt
    /\ copies = 0
    /\ trace = <<>>
    /\ result = NoResult

\* what a deserialize may be called on: a fresh text, or the output of the
\* serialize call that just returned
DeInputs(serOp, fresh) ==
    IF pc = "idle" THEN {[text |-> t, orig |-> NoneOpt] : t \in fresh}
    ELSE IF pc = "returned" /\ op = serOp /\ result.tag = "Ok"
    THEN {[text |-> result.val, orig |-> Some(input)]}
    ELSE {}

Leaf(name, in, from, out) ==
    /\ op' = name
    /\ pc' = "returned"
    /\ input' = in
    /\ orig' = from
    /\ result' = out
    /\ repr' = NoneOpt
    /\ buffer' = <<>>
    /\ tensor' = NoneOpt
    /\ copies' = 0
    /\ trace' = <<>>

DeviceSerializeCall ==
    /\ pc = "idle"
    /\ \E d \in Devices :
          Leaf("serde_device::serialize", d, NoneOpt, DeviceSerialize(d))

DeviceDeserializeCall ==
    \E i \in DeInputs("serde_device::serialize", DeviceTexts) :
        Leaf("serde_device::deserialize", i.text, i.orig, DeviceDeserialize(i.text))

KindSerializeCall ==
    /\ pc = "idle"
    /\ \E k \in Kinds : Leaf("serde_kind::serialize", k, NoneOpt, KindSerialize(k))

KindDeserializeCall ==
    \E i \in DeInputs("serde_kind::serialize", KindTexts) :
        Leaf("serde_kind::deserialize", i.text, i.orig, KindDeserialize(i.text))

ReductionSerializeCall ==
    /\ pc = "idle"
    /\ \E r \in Reductions :
          Leaf("serde_reduction::serialize", r, NoneOpt, ReductionSerialize(r))

ReductionDeserializeCall ==
    \E i \in DeInputs("serde_reduction::serialize", ReductionTexts) :
        Leaf("serde_reduction::deserialize", i.text, i.orig,
             ReductionDeserialize(i.text))

\* serde_tensor::serialize, lines 111-138: the queries and the elem_size match
TensorSerializeBegin ==
    /\ pc = "idle"
    /\ \E t \in Tensors :
          /\ op' = "serde_tensor::serialize"
          /\ input' = t
          /\ IF ElemSize(t.kind).tag = "None"
             THEN /\ result' = Err("tensor with kind is not supported yet", t.kind)
                  /\ pc' = "returned"
             ELSE /\ result' = NoResult
                  /\ pc' = "copy"
    /\ orig' = NoneOpt
    /\ repr' = NoneOpt
    /\ buffer' = <<>>
    /\ tensor' = NoneOpt
    /\ copies' = 0
    /\ trace' = <<>>

\* lines 139-142: allocate numel * elem_size zero bytes and copy into them
TensorSerializeCopy ==
    /\ op = "serde_tensor::serialize"
    /\ pc = "copy"
    /\ LET numel == Numel(input.shape)
           buf_size == numel * ElemSize(input.kind).val
       IN buffer' = CopyDataU8(input, ZeroBuffer(buf_size), numel)
    /\ copies' = copies + 1
    /\ pc' = "assemble"
    /\ UNCHANGED <<op, input, orig, repr, tensor, trace, result>>

\* lines 145-153: assemble the TensorRepr and serialize it
TensorSerializeRepr ==
    /\ op = "serde_tensor::serialize"
    /\ pc = "assemble"
    /\ LET r == TensorRepr(input.requires_grad, input.device, input.shape,
                           input.kind, buffer)
       IN /\ repr' = Some(r)
          /\ result' = ReprSerialize(r)
    /\ pc' = "returned"
    /\ UNCHANGED <<op, input, orig, buffer, tensor, copies, trace>>

\* serde_tensor::deserialize, lines 160-166: decode the TensorRepr, `?`
TensorDeserializeDecode ==
    \E i \in DeInputs("serde_tensor::serialize", Wires) :
        LET r == ReprDeserialize(i.text)
        IN /\ op' = "serde_tensor::deserialize"
           /\ input' = i.text
           /\ orig' = i.orig
           /\ trace' = <<"decode">>
           /\ tensor' = NoneOpt
           /\ buffer' = <<>>
           /\ copies' = 0
           /\ IF r.tag = "Err"
              THEN /\ repr' = NoneOpt
                   /\ result' = r
                   /\ pc' = "returned"
              ELSE /\ repr' = Some(r.val)
                   /\ result' = NoResult
                   /\ pc' = StepAfter("decode")

\* line 168: Tensor::of_data_size(&data, &shape, kind)
TensorDeserializeConstruct ==
    /\ op = "serde_tensor::deserialize"
    /\ pc = "construct"
    /\ trace' = Append(trace, "construct")
    /\ \E o \in OfDataSize(repr.val.data, repr.val.shape, repr.val.kind) :
          IF o.tag = "Crash"
          THEN /\ tensor' = NoneOpt
               /\ pc' = "crashed"
          ELSE /\ tensor' = Some(o.val)
               /\ pc' = StepAfter("construct")
    /\ UNCHANGED <<op, input, orig, repr, buffer, copies, result>>

\* line 169: tensor.set_requires_grad(requires_grad)
TensorDeserializeSetRequiresGrad ==
    /\ op = "serde_tensor::deserialize"
    /\ pc = "set_requires_grad"
    /\ trace' = Append(trace, "set_requires_grad")
    /\ LET o == SetRequiresGrad(tensor.val, repr.val.requires_grad)
       IN IF o.tag = "Panic"
          THEN /\ tensor' = NoneOpt
               /\ pc' = "panicked"
          ELSE /\ tensor' = Some(o.val)
               /\ pc' = StepAfter("set_requires_grad")
    /\ UNCHANGED <<op, input, orig, repr, buffer, copies, result>>

\* line 170: tensor.to_device(device)
TensorDeserializeToDevice ==
    /\ op = "serde_tensor::deserialize"
    /\ pc = "to_device"
    /\ trace' = Append(trace, "to_device")
    /\ tensor' = Some(ToDevice(tensor.val, repr.val.device))
    /\ pc' = StepAfter("to_device")
    /\ UNCHANGED <<op, input, orig, repr, buffer, copies, result>>

\* line 172: Ok(tensor)
TensorDeserializeReturn ==
    /\ op = "serde_tensor::deserialize"
    /\ pc = "return"
    /\ trace' = Append(trace, "return")
    /\ result' = Ok(tensor.val)
    /\ pc' = StepAfter("return")
    /\ UNCHANGED <<op, input, orig, repr, buffer, tensor, copies>>

\* the caller is done with the call's outcome
Reset ==
    /\ pc \in {"returned", "crashed", "panicked"}
    /\ op' = "none"
    /\ pc' = "idle"
    /\ input' = NoneOpt
    /\ orig' = NoneOpt
    /\ repr' = NoneOpt
    /\ buffer' = <<>>
    /\ tensor' = NoneOpt
    /\ copies' = 0
    /\ trace' = <<>>
    /\ result' = NoResult

Next ==
    \/ DeviceSerializeCall
    \/ DeviceDeserializeCall
    \/ KindSerializeCall
    \/ KindDeserializeCall
    \/ ReductionSerializeCall
    \/ ReductionDeserializeCall
    \/ TensorSerializeBegin
    \/ TensorSerializeCopy
    \/ TensorSerializeRepr
    \/ TensorDeserializeDecode
    \/ TensorDeserializeConstruct
    \/ TensorDeserializeSetRequiresGrad
    \/ TensorDeserializeToDevice
    \/ TensorDeserializeReturn
    \/ Reset

Spec == Init /\ [][Next]_vars

(***************************************************************************)
(* Vocabulary of the properties, stated apart from the code's operators.   *)
(***************************************************************************)
SupportedKinds ==
    {"Uint8", "Int8", "Int16", "Int", "Int64", "Half", "Float", "Double",
     "Bool", "QInt8", "QUInt8", "QInt32", "BFloat16"}

ComplexKinds == {"ComplexHalf", "ComplexFloat", "ComplexDouble"}

\* the byte width the specification gives each supported kind
ByteWidth(kind) ==
    CASE kind \in {"Uint8", "Int8", "Bool", "QInt8", "QUInt8"} -> 1
      [] kind \in {"Int16", "Half", "BFloat16"} -> 2
      [] kind \in {"Int", "QInt32", "Float"} -> 4
      [] kind \in {"Int64", "Double"} -> 8

\* the 16 fixed identifiers
KindNames ==
    {"uint8", "int8", "int16", "int", "int64", "half", "float", "double",
     "complex_half", "complex_float", "complex_double", "bool", "qint8",
     "quint8", "qint32", "bfloat16"}

AllDigits(t) == \A i \in 1..Len(t) : t[i] \in {DigitChars[d] : d \in 1..10}

\* the number a text of digits denotes: its digits without leading zeros
DecimalValue(t) ==
    LET ds == [i \in 1..Len(t) |-> ToDigit(t[i])]
        nz == {i \in 1..Len(t) : ds[i] # 0}
    IN IF nz = {} THEN <<0>>
       ELSE SubSeq(ds, CHOOSE i \in nz : \A j \in nz : i <= j, Len(t))

HasPrefix(t, p) == Len(t) >= Len(p) /\ \A i \in 1..Len(p) : t[i] = p[i]
After(t, p) == SubSeq(t, Len(p) + 1, Len(t))

\* one or more digits and nothing else
PlainDecimal(t) == t # <<>> /\ AllDigits(t)

\* an optional '+', then one or more digits
PlusDecimal(t) ==
    \/ PlainDecimal(t)
    \/ t # <<>> /\ t[1] = "+" /\ PlainDecimal(Tail(t))

\* an optional '+' or '-', then one or more digits
SignedDecimal(t) ==
    \/ PlainDecimal(t)
    \/ t # <<>> /\ t[1] \in {"+", "-"} /\ PlainDecimal(Tail(t))

Unsigned(t) == IF t[1] \in {"+", "-"} THEN Tail(t) ELSE t

\* "cuda:" followed by digits only
CanonicalCudaText(t) == HasPrefix(t, CudaPrefix) /\ PlainDecimal(After(t, CudaPrefix))

\* "cuda:", an optional '+', digits of a value that fits usize
AcceptedCudaText(t) ==
    /\ HasPrefix(t, CudaPrefix)
    /\ PlusDecimal(After(t, CudaPrefix))
    /\ DigitsLeq(DecimalValue(Unsigned(After(t, CudaPrefix))), UsizeMax)

DeviceTextValid(t) == t = CpuText \/ AcceptedCudaText(t)

\* "other:", an optional sign, digits of a value that fits i64
AcceptedOtherText(t) ==
    /\ HasPrefix(t, OtherPrefix)
    /\ SignedDecimal(After(t, OtherPrefix))
    /\ DigitsLeq(DecimalValue(Unsigned(After(t, OtherPrefix))),
                 IF After(t, OtherPrefix)[1] = "-" THEN I64MinMag ELSE I64Max)

OtherValue(t) ==
    LET mag == DecimalValue(Unsigned(After(t, OtherPrefix)))
    IN [neg |-> After(t, OtherPrefix)[1] = "-" /\ mag # <<0>>, mag |-> mag]

InTensorSerialize == op = "serde_tensor::serialize"
InTensorDeserialize == op = "serde_tensor::deserialize"
Returned == pc = "returned"

(***************************************************************************)
(* Properties.                                                             *)
(***************************************************************************)

\* C1: tensor round trip.  Serializing a tensor of a supported kind succeeds,
\* and deserializing what it returned never faults and returns a tensor with
\* the same shape, kind, gradient flag, device and bytes.
TensorRoundTrip ==
    /\ (InTensorSerialize /\ Returned /\ input.kind \in SupportedKinds)
          => result.tag = "Ok"
    /\ (InTensorDeserialize /\ orig.tag = "Some")
          => /\ pc \notin {"crashed", "panicked"}
             /\ Returned =>
                   /\ result.tag = "Ok"
                   /\ result.val.shape = orig.val.shape
                   /\ result.val.kind = orig.val.kind
                   /\ result.val.requires_grad = orig.val.requires_grad
                   /\ result.val.device = orig.val.device
                   /\ result.val.data = orig.val.data

TensorRoundTripWitness ==
    /\ InTensorDeserialize /\ Returned /\ orig.tag = "Some"
    /\ orig.val.shape = <<>>
    /\ orig.val.kind = "BFloat16"
    /\ orig.val.requires_grad
    /\ orig.val.device = Cuda(<<1>>)
    /\ result.tag = "Ok"

\* C2 (as claimed): a decoded record whose data length is not
\* numel(shape) * byteWidth(kind) makes deserialize return a decode failure,
\* and no tensor is ever constructed from it.
DecodeRejectsLengthMismatch ==
    (/\ InTensorDeserialize
     /\ repr.tag = "Some"
     /\ repr.val.kind \in SupportedKinds
     /\ Len(repr.val.data) # Numel(repr.val.shape) * ByteWidth(repr.val.kind))
        => /\ tensor.tag = "None"
           /\ pc \notin {"crashed", "panicked"}
           /\ Returned => result.tag = "Err"

\* C3: serializing a tensor of a complex kind returns an error naming the
\* kind; no TensorRepr is built and no bytes are copied.
UnsupportedKindRejected ==
    (InTensorSerialize /\ input.kind \in ComplexKinds)
        => /\ Returned
           /\ result.tag = "Err"
           /\ result.arg = input.kind
           /\ repr.tag = "None"
           /\ copies = 0
           /\ buffer = <<>>

UnsupportedKindWitness ==
    /\ InTensorSerialize /\ Returned
    /\ input.kind = "ComplexFloat"
    /\ input.shape = <<2>>
    /\ result.tag = "Err"

\* C4 (as claimed): device decode returns CPU iff the text is "cpu", returns
\* Cuda(i) iff the text is "cuda:" followed by digits only, i their value,
\* and fails with the original text otherwise.
DeviceDecodeCanonicalOnly ==
    (op = "serde_device::deserialize" /\ Returned)
        => /\ result = Ok(Cpu) <=> input = CpuText
           /\ (result.tag = "Ok" /\ result.val.tag = "Cuda")
                 <=> CanonicalCudaText(input)
           /\ CanonicalCudaText(input)
                 => result = Ok(Cuda(DecimalValue(After(input, CudaPrefix))))
           /\ (input # CpuText /\ ~CanonicalCudaText(input))
                 => result = Err("invalid device name", input)

\* C4 (amended): device decode returns CPU iff the text is "cpu", returns
\* Cuda(i) iff the text is "cuda:", an optional '+', then one or more digits
\* whose value i is at most usize::MAX, and fails with the original text
\* otherwise.
DeviceDecodeLanguage ==
    (op = "serde_device::deserialize" /\ Returned)
        => /\ result = Ok(Cpu) <=> input = CpuText
           /\ (result.tag = "Ok" /\ result.val.tag = "Cuda")
                 <=> AcceptedCudaText(input)
           /\ AcceptedCudaText(input)
                 => result = Ok(Cuda(DecimalValue(Unsigned(After(input, CudaPrefix)))))
           /\ (input # CpuText /\ ~AcceptedCudaText(input))
                 => result = Err("invalid device name", input)

DeviceDecodeWitness ==
    /\ op = "serde_device::deserialize" /\ Returned
    /\ input = CudaPrefix \o <<"+", "1">>
    /\ result = Ok(Cuda(<<1>>))

\* C5: reduction decode returns None/Mean/Sum exactly for "none"/"mean"/"sum",
\* Other(v) iff the text is "other:" followed by a signed decimal that fits
\* i64, v its value, and fails with the original text otherwise.
ReductionDecodeLanguage ==
    (op = "serde_reduction::deserialize" /\ Returned)
        => /\ result = Ok(ReductionNone) <=> input = NoneText
           /\ result = Ok(ReductionMean) <=> input = MeanText
           /\ result = Ok(ReductionSum) <=> input = SumText
           /\ (result.tag = "Ok" /\ result.val.tag = "Other")
                 <=> AcceptedOtherText(input)
           /\ AcceptedOtherText(input)
                 => result = Ok(ReductionOther(OtherValue(input)))
           /\ (input \notin {NoneText, MeanText, SumText} /\ ~AcceptedOtherText(input))
                 => result = Err("invalid reduction", input)

ReductionDecodeWitness ==
    /\ op = "serde_reduction::deserialize" /\ Returned
    /\ input = OtherPrefix \o <<"-">> \o FormatDigits(I64MinMag)
    /\ result = Ok(ReductionOther([neg |-> TRUE, mag |-> I64MinMag]))

\* C6: the kind, device and reduction encoders never fail, and decoding what
\* they returned gives back the value encoded.
LeafRoundTrip ==
    /\ (/\ op \in {"serde_kind::serialize", "serde_device::serialize",
                   "serde_reduction::serialize"}
        /\ Returned)
          => result.tag = "Ok"
    /\ (/\ op \in {"serde_kind::deserialize", "serde_device::deserialize",
                   "serde_reduction::deserialize"}
        /\ orig.tag = "Some")
          => result = Ok(orig.val)

LeafRoundTripWitness ==
    /\ op = "serde_device::deserialize" /\ Returned
    /\ orig = Some(Cuda(UsizeMax))
    /\ result = Ok(Cuda(UsizeMax))

\* C7: kind encode maps the 16 kinds one-to-one onto the 16 identifiers, and
\* kind decode accepts exactly those identifiers, failing with the text given
\* otherwise.
KindNameTable ==
    /\ (op = "serde_kind::serialize" /\ Returned)
          => /\ result.tag = "Ok"
             /\ result.val \in KindNames
             /\ \A k \in Kinds \ {input} : KindSerialize(k) # result
             /\ {KindSerialize(k).val : k \in Kinds} = KindNames
    /\ (op = "serde_kind::deserialize" /\ Returned)
          => /\ result.tag = "Ok" <=> input \in KindNames
             /\ result.tag = "Ok" => result.val \in Kinds
             /\ input \notin KindNames => result = Err("invalid kind", input)

KindNameTableWitness ==
    /\ op = "serde_kind::deserialize" /\ Returned
    /\ input = "Float"
    /\ result.tag = "Err"

\* C8: every TensorRepr the encoder builds, and every record it returns, has
\* numel(shape) * element_size(kind) bytes of data.
EncoderByteLength ==
    InTensorSerialize
        => /\ repr.tag = "Some"
                => Len(repr.val.data)
                      = Numel(repr.val.shape) * ByteWidth(repr.val.kind)
           /\ (Returned /\ result.tag = "Ok")
                => Len(result.val.data)
                      = Numel(input.shape) * ByteWidth(input.kind)

EncoderByteLengthWitness ==
    /\ InTensorSerialize /\ Returned
    /\ result.tag = "Ok"
    /\ input.kind = "BFloat16"
    /\ input.shape = <<2, 2>>
    /\ Len(result.val.data) = 8

\* C9: a deserialize call that returns a tensor has run decode, construct,
\* set_requires_grad, to_device and return once each in that order; the
\* tensor is on the host until to_device runs.
DecodeStepOrder ==
    InTensorDeserialize
        => /\ (Returned /\ result.tag = "Ok")
                => trace = <<"decode", "construct", "set_requires_grad",
                             "to_device", "return">>
           /\ (tensor.tag = "Some" /\ tensor.val.device # Cpu)
                => \E i \in 1..Len(trace) : trace[i] = "set_requires_grad"

DecodeStepOrderWitness ==
    /\ InTensorDeserialize /\ Returned
    /\ result.tag = "Ok"
    /\ result.val.device = Cuda(<<1>>)
    /\ result.val.requires_grad

\* C10: when the record's kind or device text is invalid, deserialize returns
\* that field's decode error, having run no construction step: no tensor
\* exists and nothing faults.
SubFieldFailure ==
    (/\ InTensorDeserialize
     /\ \/ input.kind \notin KindNames
        \/ ~DeviceTextValid(input.device))
        => /\ Returned
           /\ result.tag = "Err"
           /\ \/ /\ input.kind \notin KindNames
                 /\ result.msg = "invalid kind"
                 /\ result.arg = input.kind
              \/ /\ ~DeviceTextValid(input.device)
                 /\ result.msg = "invalid device name"
                 /\ result.arg = input.device
           /\ tensor.tag = "None"
           /\ repr.tag = "None"
           /\ trace = <<"decode">>

SubFieldFailureWitness ==
    /\ InTensorDeserialize /\ Returned
    /\ input.kind = "uint16"
    /\ input.device = CpuText
    /\ result = Err("invalid kind", "uint16")

====
